---- MODULE Spec2Model ----
(***************************************************************************)
(* Model of redsift/go-parallel (src/parallel.go, lines 1-298): the        *)
(* map/reduce engine `Parallel`, the worker pool built by `newMapper`, the *)
(* serial reduction goroutine (call_reduce) and the completion goroutine   *)
(* (call_then).  Every goroutine is a process of the model; one action is  *)
(* one atomic step of one goroutine (a channel operation, a WaitGroup      *)
(* operation, an atomic.Value load/store or a call of user code).          *)
(***************************************************************************)
EXTENDS Integers, Sequences, FiniteSets, TLC

\* ------------------------------------------------------------------ bounds
\* largest number of worker goroutines of a pool
PoolSize == 2
\* number of calls of Parallel in a behaviour
MaxInv == 2
\* number of jobs the callers of a behaviour submit in total
NumJobs == 2
\* largest value handed to OptQueue
MaxQueue == 1
\* number of times the user calls a pool's CancelFunc
MaxShutdown == 1

Workers == 1..PoolSize
Invs == 1..MaxInv

\* runtime.NumCPU(): the size of a default pool and of OptMappers(sz < 1)
NumCPU == PoolSize

\* ------------------------------------------------------------- user code
\* the jobs of TestExplicit ({0, 1, 2, -1}), continued with fresh values
JobAt(k) == IF k = 1 THEN 0 ELSE IF k = 2 THEN 1 ELSE IF k = 3 THEN 2
            ELSE IF k = 4 THEN 0 - 1 ELSE k
\* the number of jobs of TestExplicit
TestJobs == 4

MaxJobs == IF NumJobs > TestJobs THEN NumJobs ELSE TestJobs
JobVals == {JobAt(k) : k \in 1..MaxJobs}

\* initial value of the reduction in the tests
Seed == 0

\* the identity mapper of the tests: func(_ , j) { return j }
Mapper(s, j) == j

\* the addition reducer of the tests: t.(int) + a.(int)
Reducer(p, c) == p + c

\* ---------------------------------------------------------------- errors
\* an error value: <<kind, origin of the panic payload, invocation, payload>>
Nil == <<"nil", "", 0, 0>>
Canceled == <<"context.Canceled", "", 0, 0>>
ErrOptInvalidValueQueue == <<"ErrOptInvalidValueQueue", "", 0, 0>>
ErrOptInvalidValueContext == <<"ErrOptInvalidValueContext", "", 0, 0>>
ErrTrappedPanic(src, i, v) == <<"ErrTrappedPanic", src, i, v>>
ErrCancelledMapper == ErrTrappedPanic("ErrCancelledMapper", 0, 0)
SendOnClosed(i) == ErrTrappedPanic("send on closed channel", i, 0)

\* a value handed to `then`: nil or an accumulator
NilVal == <<"nil", 0>>
\* no call of the mapper in progress
NoCall == <<"no call", 0>>
Val(n) == <<"value", n>>

\* --------------------------------------------------------------- options
\* an option: <<"queue", sz>> is OptQueue(sz); <<"ctx", c>> is OptContext(c)
\* with c nil, a live cancellable context or an already cancelled one;
\* <<"mappers", "m">> is the Option returned by OptMappers
Options == {<<"queue", n>> : n \in 0..MaxQueue}
             \cup {<<"ctx", c>> : c \in {"nil", "live", "cancelled"}}
             \cup {<<"mappers", "m">>}

Kinds(opts) == {opts[k][1] : k \in 1..Len(opts)}

\* option lists naming each option at most once, in any order
OptListOK(opts) == Cardinality(Kinds(opts)) = Len(opts)

OptLists == {opts \in {<<>>} \cup {<<a>> : a \in Options}
                         \cup {<<a, b>> : a \in Options, b \in Options}
                         \cup {<<a, b, c>> : a \in Options, b \in Options,
                                              c \in Options} :
                OptListOK(opts)}

\* the options struct before any option is applied
DefaultOptions == [err |-> Nil, queue |-> 0, ctx |-> "background", mapper |-> FALSE]

\* one Option closure applied to the options struct
ApplyOpt(o, opt) ==
    IF opt[1] = "queue"
    THEN IF opt[2] < 1 THEN [o EXCEPT !.err = ErrOptInvalidValueQueue]
                       ELSE [o EXCEPT !.queue = opt[2]]
    ELSE IF opt[1] = "ctx"
    THEN IF opt[2] = "nil" THEN [o EXCEPT !.err = ErrOptInvalidValueContext]
                           ELSE [o EXCEPT !.ctx = opt[2]]
    ELSE [o EXCEPT !.mapper = TRUE]

\* faulty variant: the loop does not stop at the first error: the last one wins
RECURSIVE ApplyOpts_all(_, _)
ApplyOpts_all(o, opts) ==
    IF opts = <<>> THEN o
    ELSE LET o1 == ApplyOpt(o, Head(opts))
             o2 == ApplyOpts_all([o1 EXCEPT !.err = Nil], Tail(opts))
         IN IF o2.err # Nil THEN o2 ELSE [o2 EXCEPT !.err = o1.err]

RECURSIVE ApplyOpts(_, _)
ApplyOpts(o, opts) ==
    IF opts = <<>> THEN o
    ELSE LET o1 == ApplyOpt(o, Head(opts))
         IN IF o1.err # Nil THEN o1 ELSE ApplyOpts(o1, Tail(opts))

\* makeOptions: the loop over the options, then the queue default
\* (n is o.mapper.count: of the pool supplied, or NumCPU for a new pool)
makeOptions(opts, n) ==
    LET o == ApplyOpts(DefaultOptions, opts)
    IN IF o.err # Nil THEN o
       ELSE IF o.queue = 0 THEN [o EXCEPT !.queue = n] ELSE o

\* ----------------------------------------------------------------- state
VARIABLES
    pool,           \* "none", "external" (OptMappers) or "owned" (makeOptions)
    count,          \* m.count: the number of workers of the pool
    parallel,       \* m.parallel: the buffered channel of mapperOp copies
    parallelClosed, \* m.parallel has been closed
    mtrapped,       \* m.trapped: the pool's atomic.Value
    wpc,            \* position of each worker goroutine
    wop,            \* the invocation whose mapperOp the worker holds (wg, in)
    wjob,           \* the job being mapped / the result being sent
    inits,          \* calls of the init hook per worker index
    destroys,       \* calls of the destroy hook per worker
    shutdowns,      \* calls of the pool's CancelFunc by the user
    shutdownPanics, \* of which panicked (close of closed channel)
    pst,            \* position of the caller of each invocation
    retErr,         \* the error returned by Parallel
    rejected,       \* the option list of a call that returned an error
    disp,           \* mapperOp copies sent to m.parallel so far
    oqueue,         \* o.queue: capacity of `in`
    ctx,            \* o.ctx: "background", "live" or "cancelled"
    preCancelled,   \* the context was cancelled before Parallel was called
    hasReducer,     \* reducer != nil
    hasThen,        \* then != nil
    inq,            \* the channel `in`
    sent,           \* number of jobs the caller has sent
    outq,           \* the channel `out`
    outClosed,      \* `out` has been closed
    closes,         \* number of close(out) calls
    wg,             \* the WaitGroup wg
    wo,             \* the WaitGroup wo
    trapped,        \* the invocation's atomic.Value
    t,              \* the accumulator
    clx,            \* clx has been closed
    rpc,            \* position of the call_reduce goroutine
    ra,             \* the result the reducer is being applied to
    tpc,            \* position of the call_then goroutine
    thenCalls,      \* number of calls of then
    thenVal,        \* first argument of the call of then
    thenErr,        \* second argument of the call of then
    mapCalls,       \* per invocation and job: calls of the mapper
    mapFaults,      \* per invocation: jobs on which the mapper panicked
    redCalls,       \* per invocation and result: calls of the reducer
    redFaults,      \* per invocation: results on which the reducer panicked
    fnState,        \* per worker: the state s of its call op.fn(s, j) in progress
    copies          \* per worker and invocation: mapperOp copies received

poolVars == <<pool, count, parallel, parallelClosed, mtrapped, wpc, wop, wjob,
              inits, destroys, shutdowns, shutdownPanics>>
callVars == <<pst, retErr, rejected, disp, oqueue, ctx, preCancelled, hasReducer,
              hasThen, inq, sent>>
runVars == <<outq, outClosed, closes, wg, wo, trapped, t, clx, rpc, ra, tpc,
             thenCalls, thenVal, thenErr>>
ghostVars == <<mapCalls, mapFaults, redCalls, redFaults, fnState, copies>>
vars == <<poolVars, callVars, runVars, ghostVars>>

\* state before any pool is built and before any call of Parallel
Init ==
    /\ pool = "none"
    /\ count = 0
    /\ parallel = <<>>
    /\ parallelClosed = FALSE
    /\ mtrapped = Nil
    /\ wpc = [w \in Workers |-> "unborn"]
    /\ wop = [w \in Workers |-> 0]
    /\ wjob = [w \in Workers |-> 0]
    /\ inits = [w \in Workers |-> 0]
    /\ destroys = [w \in Workers |-> 0]
    /\ shutdowns = 0
    /\ shutdownPanics = 0
    /\ pst = [i \in Invs |-> "new"]
    /\ retErr = [i \in Invs |-> Nil]
    /\ rejected = [i \in Invs |-> <<>>]
    /\ disp = [i \in Invs |-> 0]
    /\ oqueue = [i \in Invs |-> 0]
    /\ ctx = [i \in Invs |-> "background"]
    /\ preCancelled = [i \in Invs |-> FALSE]
    /\ hasReducer = [i \in Invs |-> FALSE]
    /\ hasThen = [i \in Invs |-> FALSE]
    /\ inq = [i \in Invs |-> <<>>]
    /\ sent = [i \in Invs |-> 0]
    /\ outq = [i \in Invs |-> <<>>]
    /\ outClosed = [i \in Invs |-> FALSE]
    /\ closes = [i \in Invs |-> 0]
    /\ wg = [i \in Invs |-> 0]
    /\ wo = [i \in Invs |-> 0]
    /\ trapped = [i \in Invs |-> Nil]
    /\ t = [i \in Invs |-> Seed]
    /\ clx = [i \in Invs |-> FALSE]
    /\ rpc = [i \in Invs |-> "none"]
    /\ ra = [i \in Invs |-> 0]
    /\ tpc = [i \in Invs |-> "none"]
    /\ thenCalls = [i \in Invs |-> 0]
    /\ thenVal = [i \in Invs |-> NilVal]
    /\ thenErr = [i \in Invs |-> Nil]
    /\ mapCalls = [i \in Invs |-> [j \in JobVals |-> 0]]
    /\ mapFaults = [i \in Invs |-> {}]
    /\ redCalls = [i \in Invs |-> [j \in JobVals |-> 0]]
    /\ redFaults = [i \in Invs |-> {}]
    /\ fnState = [w \in Workers |-> NoCall]
    /\ copies = [w \in Workers |-> [i \in Invs |-> 0]]


\* ------------------------------------------------------------- operators
inClosed(i) == pst[i] = "closed"

Inc(f, j) == [f EXCEPT ![j] = @ + 1]

\* faulty variant: the worker goroutines read the variable s of the loop,
\* which holds the state of the last worker once the loop has ended
WorkerState_loopvar(w) ==
    IF pool = "external" THEN <<"init", count - 1>> ELSE NilVal

\* the state s of worker goroutine w: the value of init(i), i = w - 1, passed
\* as a parameter of the go statement; nil for a pool built without hooks
WorkerState(w) ==
    IF pool = "external" THEN <<"init", w - 1>> ELSE NilVal

\* ------------------------------------------------------- pool: newMapper
\* faulty variant: init is called for the first worker only
OptMappers_initfirst(sz) ==
    /\ pool = "none"
    /\ pool' = "external"
    /\ count' = IF sz < 1 THEN NumCPU ELSE sz
    /\ wpc' = [w \in Workers |-> IF w <= count' THEN "idle" ELSE "unborn"]
    /\ inits' = [inits EXCEPT ![1] = @ + 1]
    /\ UNCHANGED <<parallel, parallelClosed, mtrapped, wop, wjob, destroys,
                   shutdowns, shutdownPanics>>
    /\ UNCHANGED <<callVars, runVars, ghostVars>>

\* OptMappers(sz, init, destroy): the caller builds a pool of its own, with
\* both hooks; init(i) runs in the caller's loop, before worker i is spawned
OptMappers(sz) ==
    /\ pool = "none"
    /\ pool' = "external"
    /\ count' = IF sz < 1 THEN NumCPU ELSE sz
    /\ wpc' = [w \in Workers |-> IF w <= count' THEN "idle" ELSE "unborn"]
    /\ inits' = [w \in Workers |-> IF w <= count' THEN inits[w] + 1 ELSE inits[w]]
    /\ UNCHANGED <<parallel, parallelClosed, mtrapped, wop, wjob, destroys,
                   shutdowns, shutdownPanics>>
    /\ UNCHANGED <<callVars, runVars, ghostVars>>

\* faulty variant: the shutdown closes the channel without marking the trap
CancelFunc_nostore ==
    /\ UNCHANGED mtrapped
    /\ parallelClosed' = TRUE

\* the CancelFunc returned by newMapper: m.trapped.Store(...), then
\* close(m.parallel), which panics on a channel that is already closed
CancelFunc ==
    /\ mtrapped' = ErrCancelledMapper
    /\ parallelClosed' = TRUE

\* faulty variant: the close of a closed channel goes unnoticed
Shutdown_nopanic ==
    /\ pool = "external"
    /\ shutdowns' = shutdowns + 1
    /\ CancelFunc
    /\ UNCHANGED shutdownPanics
    /\ UNCHANGED <<pool, count, parallel, wpc, wop, wjob, inits, destroys>>
    /\ UNCHANGED <<callVars, runVars, ghostVars>>

\* the user calls the CancelFunc of a pool built with OptMappers
Shutdown ==
    /\ pool = "external"
    /\ shutdowns' = shutdowns + 1
    /\ CancelFunc
    /\ shutdownPanics' = IF parallelClosed THEN shutdownPanics + 1
                         ELSE shutdownPanics
    /\ UNCHANGED <<pool, count, parallel, wpc, wop, wjob, inits, destroys>>
    /\ UNCHANGED <<callVars, runVars, ghostVars>>

\* faulty variant: the counter is decremented in the loop and again in the
\* deferred function
wgDone_twice(i) == wg' = [wg EXCEPT ![i] = @ - 2]

\* wg.Done() on the WaitGroup of invocation i
wgDone(i) == wg' = [wg EXCEPT ![i] = @ - 1]

\* for op := range m.parallel: a worker receives one mapperOp copy
W_take(w) ==
    /\ wpc[w] = "idle"
    /\ parallel # <<>>
    /\ wop' = [wop EXCEPT ![w] = Head(parallel)]
    /\ parallel' = Tail(parallel)
    /\ wpc' = [wpc EXCEPT ![w] = "select"]
    /\ copies' = [copies EXCEPT ![w][Head(parallel)] = @ + 1]
    /\ UNCHANGED <<pool, count, parallelClosed, mtrapped, wjob, inits, destroys,
                   shutdowns, shutdownPanics>>
    /\ UNCHANGED <<callVars, runVars, mapCalls, mapFaults, redCalls, redFaults,
                   fnState>>

\* faulty variant: the worker ends without calling destroy
W_exit_nodestroy(w) ==
    /\ wpc[w] = "idle"
    /\ parallel = <<>>
    /\ parallelClosed
    /\ wpc' = [wpc EXCEPT ![w] = "dead"]
    /\ UNCHANGED <<pool, count, parallel, parallelClosed, mtrapped, wop, wjob, inits,
                   destroys, shutdowns, shutdownPanics>>
    /\ UNCHANGED <<callVars, runVars, ghostVars>>

\* m.parallel is closed and empty: the range loop ends and the deferred
\* function runs with wg = nil and in = nil, so only destroy(s) is called
W_exit(w) ==
    /\ wpc[w] = "idle"
    /\ parallel = <<>>
    /\ parallelClosed
    /\ wpc' = [wpc EXCEPT ![w] = "dead"]
    /\ destroys' = [destroys EXCEPT ![w] = IF pool = "external" THEN @ + 1 ELSE @]
    /\ UNCHANGED <<pool, count, parallel, parallelClosed, mtrapped, wop, wjob, inits,
                   shutdowns, shutdownPanics>>
    /\ UNCHANGED <<callVars, runVars, ghostVars>>

\* faulty variant: the worker goroutine ends with its assignment
W_finish_exit(w) ==
    /\ wgDone(wop[w])
    /\ wop' = [wop EXCEPT ![w] = 0]
    /\ wpc' = [wpc EXCEPT ![w] = "dead"]

\* the end of one assignment: wg.Done(); wg = nil; in = nil
W_finish(w) ==
    /\ wgDone(wop[w])
    /\ wop' = [wop EXCEPT ![w] = 0]
    /\ wpc' = [wpc EXCEPT ![w] = "idle"]

\* select case <-op.clx: break loop
W_clx(w) ==
    /\ wpc[w] = "select"
    /\ clx[wop[w]]
    /\ W_finish(w)
    /\ UNCHANGED <<pool, count, parallel, parallelClosed, mtrapped, wjob, inits,
                   destroys, shutdowns, shutdownPanics>>
    /\ UNCHANGED <<outq, outClosed, closes, wo, trapped, t, clx, rpc, ra, tpc,
                   thenCalls, thenVal, thenErr>>
    /\ UNCHANGED <<callVars, ghostVars>>

\* faulty variant: a worker that observes the cancellation stores it in the
\* pool's trap
W_cls_poison(w) ==
    /\ wpc[w] = "select"
    /\ ctx[wop[w]] = "cancelled"
    /\ wpc' = [wpc EXCEPT ![w] = "drain"]
    /\ mtrapped' = ErrTrappedPanic("context.Canceled", wop[w], 0)
    /\ UNCHANGED <<pool, count, parallel, parallelClosed, wop, wjob, inits,
                   destroys, shutdowns, shutdownPanics>>
    /\ UNCHANGED <<callVars, runVars, ghostVars>>

\* select case <-op.cls: the worker starts draining `in`
W_cls(w) ==
    /\ wpc[w] = "select"
    /\ ctx[wop[w]] = "cancelled"
    /\ wpc' = [wpc EXCEPT ![w] = "drain"]
    /\ UNCHANGED <<pool, count, parallel, parallelClosed, mtrapped, wop, wjob, inits,
                   destroys, shutdowns, shutdownPanics>>
    /\ UNCHANGED <<callVars, runVars, ghostVars>>

\* for _ = range in {} after cancellation, then break loop and wg.Done()
W_drain(w) ==
    /\ wpc[w] = "drain"
    /\ IF inq[wop[w]] # <<>>
       THEN /\ inq' = [inq EXCEPT ![wop[w]] = Tail(@)]
            /\ UNCHANGED <<wg, wop, wpc>>
       ELSE /\ inClosed(wop[w])
            /\ W_finish(w)
            /\ UNCHANGED inq
    /\ UNCHANGED <<pool, count, parallel, parallelClosed, mtrapped, wjob, inits,
                   destroys, shutdowns, shutdownPanics>>
    /\ UNCHANGED <<pst, retErr, rejected, disp, oqueue, ctx, preCancelled, hasReducer,
                   hasThen, sent>>
    /\ UNCHANGED <<outq, outClosed, closes, wo, trapped, t, clx, rpc, ra, tpc,
                   thenCalls, thenVal, thenErr>>
    /\ UNCHANGED ghostVars

\* faulty variant: the job received stays in the queue
W_recv_peek(w) ==
    /\ wpc[w] = "select"
    /\ inq[wop[w]] # <<>>
    /\ wjob' = [wjob EXCEPT ![w] = Head(inq[wop[w]])]
    /\ wpc' = [wpc EXCEPT ![w] = "mapping"]
    /\ mapCalls' = [mapCalls EXCEPT ![wop[w]] = Inc(@, Head(inq[wop[w]]))]
    /\ fnState' = [fnState EXCEPT ![w] = WorkerState(w)]
    /\ UNCHANGED <<pool, count, parallel, parallelClosed, mtrapped, wop, inits,
                   destroys, shutdowns, shutdownPanics>>
    /\ UNCHANGED <<pst, retErr, rejected, disp, oqueue, ctx, preCancelled, hasReducer,
                   hasThen, inq, sent>>
    /\ UNCHANGED <<runVars, mapFaults, redCalls, redFaults, copies>>

\* select case j, ok := <-in with ok: the worker calls op.fn(s, j)
W_recv(w) ==
    /\ wpc[w] = "select"
    /\ inq[wop[w]] # <<>>
    /\ wjob' = [wjob EXCEPT ![w] = Head(inq[wop[w]])]
    /\ inq' = [inq EXCEPT ![wop[w]] = Tail(@)]
    /\ wpc' = [wpc EXCEPT ![w] = "mapping"]
    /\ mapCalls' = [mapCalls EXCEPT ![wop[w]] = Inc(@, Head(inq[wop[w]]))]
    /\ fnState' = [fnState EXCEPT ![w] = WorkerState(w)]
    /\ UNCHANGED <<pool, count, parallel, parallelClosed, mtrapped, wop, inits,
                   destroys, shutdowns, shutdownPanics>>
    /\ UNCHANGED <<pst, retErr, rejected, disp, oqueue, ctx, preCancelled, hasReducer,
                   hasThen, sent>>
    /\ UNCHANGED <<runVars, mapFaults, redCalls, redFaults, copies>>

\* faulty variant: an empty queue is taken for a closed one
W_eof_early(w) ==
    /\ wpc[w] = "select"
    /\ inq[wop[w]] = <<>>
    /\ W_finish(w)
    /\ UNCHANGED <<pool, count, parallel, parallelClosed, mtrapped, wjob, inits,
                   destroys, shutdowns, shutdownPanics>>
    /\ UNCHANGED <<outq, outClosed, closes, wo, trapped, t, clx, rpc, ra, tpc,
                   thenCalls, thenVal, thenErr>>
    /\ UNCHANGED <<callVars, ghostVars>>

\* select case j, ok := <-in with !ok: break loop and wg.Done()
W_eof(w) ==
    /\ wpc[w] = "select"
    /\ inq[wop[w]] = <<>>
    /\ inClosed(wop[w])
    /\ W_finish(w)
    /\ UNCHANGED <<pool, count, parallel, parallelClosed, mtrapped, wjob, inits,
                   destroys, shutdowns, shutdownPanics>>
    /\ UNCHANGED <<outq, outClosed, closes, wo, trapped, t, clx, rpc, ra, tpc,
                   thenCalls, thenVal, thenErr>>
    /\ UNCHANGED <<callVars, ghostVars>>

\* op.fn(s, j) returns: the worker holds the result it will send
W_map(w) ==
    /\ wpc[w] = "mapping"
    /\ wjob' = [wjob EXCEPT ![w] = Mapper(fnState[w], @)]
    /\ fnState' = [fnState EXCEPT ![w] = NoCall]
    /\ wpc' = [wpc EXCEPT ![w] = "send"]
    /\ UNCHANGED <<pool, count, parallel, parallelClosed, mtrapped, wop, inits,
                   destroys, shutdowns, shutdownPanics>>
    /\ UNCHANGED <<callVars, runVars, mapCalls, mapFaults, redCalls, redFaults,
                   copies>>

\* faulty variant: the recovered panic is not stored in the pool's trap
W_recover_nostore(w, err) ==
    /\ UNCHANGED mtrapped
    /\ wgDone(wop[w])
    /\ wpc' = [wpc EXCEPT ![w] = "pdrain"]

\* faulty variant: the trap keeps the first fault stored
W_recover_first(w, err) ==
    /\ mtrapped' = IF mtrapped = Nil THEN err ELSE mtrapped
    /\ wgDone(wop[w])
    /\ wpc' = [wpc EXCEPT ![w] = "pdrain"]

\* the deferred function of a worker after a panic: recover(),
\* m.trapped.Store(err), wg.Done(); the drain of `in` follows
W_recover(w, err) ==
    /\ mtrapped' = err
    /\ wgDone(wop[w])
    /\ wpc' = [wpc EXCEPT ![w] = "pdrain"]

\* op.fn(s, j) panics
W_panic(w) ==
    /\ wpc[w] = "mapping"
    /\ W_recover(w, ErrTrappedPanic("mapper", wop[w], wjob[w]))
    /\ mapFaults' = [mapFaults EXCEPT ![wop[w]] = @ \cup {wjob[w]}]
    /\ fnState' = [fnState EXCEPT ![w] = NoCall]
    /\ UNCHANGED <<pool, count, parallel, parallelClosed, wop, wjob, inits, destroys,
                   shutdowns, shutdownPanics>>
    /\ UNCHANGED <<outq, outClosed, closes, wo, trapped, t, clx, rpc, ra, tpc,
                   thenCalls, thenVal, thenErr>>
    /\ UNCHANGED <<callVars, mapCalls, redCalls, redFaults, copies>>

\* faulty variant: the worker applies the reducer itself instead of sending
W_send_reduce(w) ==
    /\ wpc[w] = "send"
    /\ t' = [t EXCEPT ![wop[w]] = Reducer(@, wjob[w])]
    /\ wpc' = [wpc EXCEPT ![w] = "select"]
    /\ UNCHANGED <<pool, count, parallel, parallelClosed, mtrapped, wop, wjob,
                   inits, destroys, shutdowns, shutdownPanics>>
    /\ UNCHANGED <<outq, outClosed, closes, wg, wo, trapped, clx, rpc, ra, tpc,
                   thenCalls, thenVal, thenErr>>
    /\ UNCHANGED <<callVars, ghostVars>>

\* op.out <- result: blocks while `out` is full, panics if `out` is closed
W_send(w) ==
    /\ wpc[w] = "send"
    /\ IF outClosed[wop[w]]
       THEN /\ W_recover(w, SendOnClosed(wop[w]))
            /\ UNCHANGED outq
       ELSE /\ Len(outq[wop[w]]) < count
            /\ outq' = [outq EXCEPT ![wop[w]] = Append(@, wjob[w])]
            /\ wpc' = [wpc EXCEPT ![w] = "select"]
            /\ UNCHANGED <<mtrapped, wg>>
    /\ UNCHANGED <<pool, count, parallel, parallelClosed, wop, wjob, inits, destroys,
                   shutdowns, shutdownPanics>>
    /\ UNCHANGED <<outClosed, closes, wo, trapped, t, clx, rpc, ra, tpc,
                   thenCalls, thenVal, thenErr>>
    /\ UNCHANGED <<callVars, ghostVars>>

\* the rest of the deferred function after a panic: in != nil, so
\* for _ = range in {} until `in` is closed, then destroy(s); the goroutine ends
W_pdrain(w) ==
    /\ wpc[w] = "pdrain"
    /\ IF inq[wop[w]] # <<>>
       THEN /\ inq' = [inq EXCEPT ![wop[w]] = Tail(@)]
            /\ UNCHANGED <<wpc, destroys>>
       ELSE /\ inClosed(wop[w])
            /\ wpc' = [wpc EXCEPT ![w] = "dead"]
            /\ destroys' = [destroys EXCEPT ![w] =
                               IF pool = "external" THEN @ + 1 ELSE @]
            /\ UNCHANGED inq
    /\ UNCHANGED <<pool, count, parallel, parallelClosed, mtrapped, wop, wjob, inits,
                   shutdowns, shutdownPanics>>
    /\ UNCHANGED <<pst, retErr, rejected, disp, oqueue, ctx, preCancelled, hasReducer,
                   hasThen, sent>>
    /\ UNCHANGED <<runVars, ghostVars>>


\* ------------------------------------------------------ Parallel: caller
\* faulty variant: the pool's trap is not checked
Poisoned_never == FALSE

\* the check of the pool's trap: o.mapper.trapped.Load() != nil
Poisoned == mtrapped # Nil

\* faulty variant: call_then and call_reduce are spawned before the options
\* are examined
P_call_spawn(i, opts, red, thn) ==
    /\ pst[i] = "new"
    /\ ("mappers" \in Kinds(opts)) => (pool = "external")
    /\ LET n == IF "mappers" \in Kinds(opts) THEN count ELSE NumCPU
           o == makeOptions(opts, n)
       IN IF o.err # Nil
          THEN /\ pst' = [pst EXCEPT ![i] = "cfgerr"]
               /\ retErr' = [retErr EXCEPT ![i] = o.err]
               /\ rejected' = [rejected EXCEPT ![i] = opts]
               /\ wg' = [wg EXCEPT ![i] = n]
               /\ wo' = [wo EXCEPT ![i] = 1]
               /\ tpc' = [tpc EXCEPT ![i] = "wgwait"]
               /\ rpc' = [rpc EXCEPT ![i] = IF red THEN "recv" ELSE "none"]
               /\ UNCHANGED <<pool, count, wpc, oqueue, ctx, preCancelled,
                              hasReducer, hasThen>>
          ELSE /\ (~o.mapper) => (pool = "none")
               /\ pool' = IF o.mapper THEN pool ELSE "owned"
               /\ count' = n
               /\ wpc' = IF o.mapper THEN wpc
                         ELSE [w \in Workers |-> IF w <= n THEN "idle" ELSE "unborn"]
               /\ oqueue' = [oqueue EXCEPT ![i] = o.queue]
               /\ ctx' = [ctx EXCEPT ![i] = o.ctx]
               /\ preCancelled' = [preCancelled EXCEPT ![i] = (o.ctx = "cancelled")]
               /\ hasReducer' = [hasReducer EXCEPT ![i] = red]
               /\ hasThen' = [hasThen EXCEPT ![i] = thn]
               /\ wg' = [wg EXCEPT ![i] = n]
               /\ wo' = [wo EXCEPT ![i] = 1]
               /\ tpc' = [tpc EXCEPT ![i] = "wgwait"]
               /\ rpc' = [rpc EXCEPT ![i] = IF red THEN "recv" ELSE "none"]
               /\ pst' = [pst EXCEPT ![i] =
                             IF Poisoned THEN "panicked" ELSE "dispatch"]
               /\ UNCHANGED <<retErr, rejected>>
    /\ UNCHANGED <<parallel, parallelClosed, mtrapped, wop, wjob, inits,
                   destroys, shutdowns, shutdownPanics>>
    /\ UNCHANGED <<disp, inq, sent>>
    /\ UNCHANGED <<outq, outClosed, closes, trapped, t, clx, ra, thenCalls,
                   thenVal, thenErr>>
    /\ UNCHANGED ghostVars

\* Parallel up to the check of o.mapper.trapped (lines 216-290): makeOptions
\* (with newMapper for the default pool), the two channels, wg.Add, wo.Add,
\* the spawn of call_then and call_reduce, and the check of the pool's trap.
\* The model holds one pool: a call without the mappers option builds it.
P_call(i, opts, red, thn) ==
    /\ pst[i] = "new"
    /\ ("mappers" \in Kinds(opts)) => (pool = "external")
    /\ LET n == IF "mappers" \in Kinds(opts) THEN count ELSE NumCPU
           o == makeOptions(opts, n)
       IN IF o.err # Nil
          THEN /\ pst' = [pst EXCEPT ![i] = "cfgerr"]
               /\ retErr' = [retErr EXCEPT ![i] = o.err]
               /\ rejected' = [rejected EXCEPT ![i] = opts]
               /\ UNCHANGED <<pool, count, wpc, oqueue, ctx, preCancelled,
                              hasReducer, hasThen, wg, wo, tpc, rpc>>
          ELSE /\ (~o.mapper) => (pool = "none")
               /\ pool' = IF o.mapper THEN pool ELSE "owned"
               /\ count' = n
               /\ wpc' = IF o.mapper THEN wpc
                         ELSE [w \in Workers |-> IF w <= n THEN "idle" ELSE "unborn"]
               /\ oqueue' = [oqueue EXCEPT ![i] = o.queue]
               /\ ctx' = [ctx EXCEPT ![i] = o.ctx]
               /\ preCancelled' = [preCancelled EXCEPT ![i] = (o.ctx = "cancelled")]
               /\ hasReducer' = [hasReducer EXCEPT ![i] = red]
               /\ hasThen' = [hasThen EXCEPT ![i] = thn]
               /\ wg' = [wg EXCEPT ![i] = n]
               /\ wo' = [wo EXCEPT ![i] = 1]
               /\ tpc' = [tpc EXCEPT ![i] = "wgwait"]
               /\ rpc' = [rpc EXCEPT ![i] = IF red THEN "recv" ELSE "none"]
               /\ pst' = [pst EXCEPT ![i] =
                             IF Poisoned THEN "panicked" ELSE "dispatch"]
               /\ UNCHANGED <<retErr, rejected>>
    /\ UNCHANGED <<parallel, parallelClosed, mtrapped, wop, wjob, inits,
                   destroys, shutdowns, shutdownPanics>>
    /\ UNCHANGED <<disp, inq, sent>>
    /\ UNCHANGED <<outq, outClosed, closes, trapped, t, clx, ra, thenCalls,
                   thenVal, thenErr>>
    /\ UNCHANGED ghostVars

\* one iteration of the loop o.mapper.parallel <- m (lines 293-295): blocks
\* while the channel is full, panics if the channel is closed; after the
\* last copy Parallel returns `in`
P_dispatch(i) ==
    /\ pst[i] = "dispatch"
    /\ IF parallelClosed
       THEN /\ pst' = [pst EXCEPT ![i] = "panicked"]
            /\ UNCHANGED <<parallel, disp>>
       ELSE /\ Len(parallel) < count
            /\ parallel' = Append(parallel, i)
            /\ disp' = [disp EXCEPT ![i] = @ + 1]
            /\ pst' = [pst EXCEPT ![i] =
                          IF disp[i] + 1 = count THEN "returned" ELSE @]
    /\ UNCHANGED <<pool, count, parallelClosed, mtrapped, wpc, wop, wjob, inits,
                   destroys, shutdowns, shutdownPanics>>
    /\ UNCHANGED <<retErr, rejected, oqueue, ctx, preCancelled, hasReducer, hasThen,
                   inq, sent>>
    /\ UNCHANGED <<runVars, ghostVars>>

\* faulty variant: the caller's send does not wait for room in the queue
Send_unbounded(i) ==
    /\ pst[i] = "returned"
    /\ inq' = [inq EXCEPT ![i] = Append(@, JobAt(sent[i] + 1))]
    /\ sent' = [sent EXCEPT ![i] = @ + 1]
    /\ UNCHANGED <<pst, retErr, rejected, disp, oqueue, ctx, preCancelled, hasReducer,
                   hasThen>>
    /\ UNCHANGED <<poolVars, runVars, ghostVars>>

\* the caller writes its next job to the returned queue: q <- v
Send(i) ==
    /\ pst[i] = "returned"
    /\ Len(inq[i]) < oqueue[i]
    /\ inq' = [inq EXCEPT ![i] = Append(@, JobAt(sent[i] + 1))]
    /\ sent' = [sent EXCEPT ![i] = @ + 1]
    /\ UNCHANGED <<pst, retErr, rejected, disp, oqueue, ctx, preCancelled, hasReducer,
                   hasThen>>
    /\ UNCHANGED <<poolVars, runVars, ghostVars>>

\* the caller closes the queue: close(q)
Close(i) ==
    /\ pst[i] = "returned"
    /\ pst' = [pst EXCEPT ![i] = "closed"]
    /\ UNCHANGED <<retErr, rejected, disp, oqueue, ctx, preCancelled, hasReducer,
                   hasThen, inq, sent>>
    /\ UNCHANGED <<poolVars, runVars, ghostVars>>

\* the context handed to OptContext is cancelled while the invocation runs
Cancel(i) ==
    /\ pst[i] \in {"dispatch", "returned", "closed"}
    /\ ctx[i] = "live"
    /\ ctx' = [ctx EXCEPT ![i] = "cancelled"]
    /\ UNCHANGED <<pst, retErr, rejected, disp, oqueue, preCancelled, hasReducer,
                   hasThen, inq, sent>>
    /\ UNCHANGED <<poolVars, runVars, ghostVars>>

\* ------------------------------------------------- Parallel: call_reduce
\* for a := range out: the reducer thread receives the next result and
\* calls reducer(t, a)
R_recv(i) ==
    /\ rpc[i] = "recv"
    /\ outq[i] # <<>>
    /\ ra' = [ra EXCEPT ![i] = Head(outq[i])]
    /\ outq' = [outq EXCEPT ![i] = Tail(@)]
    /\ rpc' = [rpc EXCEPT ![i] = "reducing"]
    /\ redCalls' = [redCalls EXCEPT ![i] = Inc(@, Head(outq[i]))]
    /\ UNCHANGED <<outClosed, closes, wg, wo, trapped, t, clx, tpc, thenCalls,
                   thenVal, thenErr>>
    /\ UNCHANGED <<poolVars, callVars, mapCalls, mapFaults, redFaults, fnState, copies>>

\* reducer(t, a) returns: t = reducer(t, a)
R_reduce(i) ==
    /\ rpc[i] = "reducing"
    /\ t' = [t EXCEPT ![i] = Reducer(@, ra[i])]
    /\ rpc' = [rpc EXCEPT ![i] = "recv"]
    /\ UNCHANGED <<outq, outClosed, closes, wg, wo, trapped, clx, ra, tpc,
                   thenCalls, thenVal, thenErr>>
    /\ UNCHANGED <<poolVars, callVars, ghostVars>>

\* the deferred function of call_reduce after recover(): wo.Done() and
\* close(clx); the drain of `out` follows
R_defer(i) ==
    /\ wo' = [wo EXCEPT ![i] = @ - 1]
    /\ clx' = [clx EXCEPT ![i] = TRUE]

\* faulty variant: the reducer's panic is stored in the pool's trap
R_panic_pool(i) ==
    /\ rpc[i] = "reducing"
    /\ mtrapped' = ErrTrappedPanic("reducer", i, ra[i])
    /\ R_defer(i)
    /\ rpc' = [rpc EXCEPT ![i] = "drain"]
    /\ redFaults' = [redFaults EXCEPT ![i] = @ \cup {ra[i]}]
    /\ UNCHANGED <<outq, outClosed, closes, wg, trapped, t, ra, tpc, thenCalls,
                   thenVal, thenErr>>
    /\ UNCHANGED <<pool, count, parallel, parallelClosed, wpc, wop, wjob, inits,
                   destroys, shutdowns, shutdownPanics>>
    /\ UNCHANGED <<callVars, mapCalls, mapFaults, redCalls, fnState, copies>>

\* reducer(t, a) panics: recover(), trapped.Store(err), then R_defer
R_panic(i) ==
    /\ rpc[i] = "reducing"
    /\ trapped' = [trapped EXCEPT ![i] = ErrTrappedPanic("reducer", i, ra[i])]
    /\ R_defer(i)
    /\ rpc' = [rpc EXCEPT ![i] = "drain"]
    /\ redFaults' = [redFaults EXCEPT ![i] = @ \cup {ra[i]}]
    /\ UNCHANGED <<outq, outClosed, closes, wg, t, ra, tpc, thenCalls, thenVal,
                   thenErr>>
    /\ UNCHANGED <<poolVars, callVars, mapCalls, mapFaults, redCalls, fnState, copies>>

\* faulty variant: the range loop ends as soon as `out` is empty
R_end_early(i) ==
    /\ rpc[i] = "recv"
    /\ outq[i] = <<>>
    /\ R_defer(i)
    /\ rpc' = [rpc EXCEPT ![i] = "done"]
    /\ UNCHANGED <<outq, outClosed, closes, wg, trapped, t, ra, tpc, thenCalls,
                   thenVal, thenErr>>
    /\ UNCHANGED <<poolVars, callVars, ghostVars>>

\* `out` is closed and empty: the range loop ends, the deferred function
\* runs without a panic and its own range over `out` ends at once
R_end(i) ==
    /\ rpc[i] = "recv"
    /\ outq[i] = <<>>
    /\ outClosed[i]
    /\ R_defer(i)
    /\ rpc' = [rpc EXCEPT ![i] = "done"]
    /\ UNCHANGED <<outq, outClosed, closes, wg, trapped, t, ra, tpc, thenCalls,
                   thenVal, thenErr>>
    /\ UNCHANGED <<poolVars, callVars, ghostVars>>

\* faulty variant: the deferred function does not drain `out`
R_drain_skip(i) ==
    /\ rpc[i] = "drain"
    /\ rpc' = [rpc EXCEPT ![i] = "done"]
    /\ UNCHANGED <<outq, outClosed, closes, wg, wo, trapped, t, clx, ra, tpc,
                   thenCalls, thenVal, thenErr>>
    /\ UNCHANGED <<poolVars, callVars, ghostVars>>

\* for _ = range out {} in the deferred function after a panic
R_drain(i) ==
    /\ rpc[i] = "drain"
    /\ IF outq[i] # <<>>
       THEN /\ outq' = [outq EXCEPT ![i] = Tail(@)]
            /\ UNCHANGED rpc
       ELSE /\ outClosed[i]
            /\ rpc' = [rpc EXCEPT ![i] = "done"]
            /\ UNCHANGED outq
    /\ UNCHANGED <<outClosed, closes, wg, wo, trapped, t, clx, ra, tpc,
                   thenCalls, thenVal, thenErr>>
    /\ UNCHANGED <<poolVars, callVars, ghostVars>>

\* --------------------------------------------------- Parallel: call_then
\* faulty variant: `out` is closed without waiting for the workers
T_close_early(i) ==
    /\ tpc[i] = "wgwait"
    /\ outClosed' = [outClosed EXCEPT ![i] = TRUE]
    /\ closes' = [closes EXCEPT ![i] = @ + 1]
    /\ tpc' = [tpc EXCEPT ![i] = IF hasThen[i] THEN "wowait" ELSE "defer"]
    /\ UNCHANGED <<outq, wg, wo, trapped, t, clx, rpc, ra, thenCalls, thenVal,
                   thenErr>>
    /\ UNCHANGED <<poolVars, callVars, ghostVars>>

\* faulty variant: `out` is closed a second time before call_then goes on
T_close_again(i) ==
    /\ tpc[i] = "wgwait"
    /\ wg[i] = 0
    /\ outClosed' = [outClosed EXCEPT ![i] = TRUE]
    /\ closes' = [closes EXCEPT ![i] = @ + 1]
    /\ tpc' = [tpc EXCEPT ![i] = IF closes[i] = 0 THEN "wgwait"
                                 ELSE IF hasThen[i] THEN "wowait" ELSE "defer"]
    /\ UNCHANGED <<outq, wg, wo, trapped, t, clx, rpc, ra, thenCalls, thenVal,
                   thenErr>>
    /\ UNCHANGED <<poolVars, callVars, ghostVars>>

\* wg.Wait(); close(out); then either wo.Wait() or, with then = nil, the
\* deferred function
T_close(i) ==
    /\ tpc[i] = "wgwait"
    /\ wg[i] = 0
    /\ outClosed' = [outClosed EXCEPT ![i] = TRUE]
    /\ closes' = [closes EXCEPT ![i] = @ + 1]
    /\ tpc' = [tpc EXCEPT ![i] = IF hasThen[i] THEN "wowait" ELSE "defer"]
    /\ UNCHANGED <<outq, wg, wo, trapped, t, clx, rpc, ra, thenCalls, thenVal,
                   thenErr>>
    /\ UNCHANGED <<poolVars, callVars, ghostVars>>

\* a call then(v, e), after which only the deferred function is left
callThen(i, v, e) ==
    /\ thenCalls' = [thenCalls EXCEPT ![i] = @ + 1]
    /\ thenVal' = [thenVal EXCEPT ![i] = v]
    /\ thenErr' = [thenErr EXCEPT ![i] = e]
    /\ tpc' = [tpc EXCEPT ![i] = "defer"]

\* faulty variant: the invocation's trap is tested before the pool's
T_resolve_swapped(i) ==
    /\ tpc[i] = "wowait"
    /\ wo[i] = 0
    /\ IF trapped[i] # Nil THEN callThen(i, NilVal, trapped[i])
       ELSE IF mtrapped # Nil THEN callThen(i, NilVal, mtrapped)
       ELSE /\ tpc' = [tpc EXCEPT ![i] = "ctxerr"]
            /\ UNCHANGED <<thenCalls, thenVal, thenErr>>
    /\ UNCHANGED <<outq, outClosed, closes, wg, wo, trapped, t, clx, rpc, ra>>
    /\ UNCHANGED <<poolVars, callVars, ghostVars>>

\* wo.Wait(); terr := trapped.Load(); o.mapper.trapped.Load(): the first
\* two branches of the outcome (lines 245-252)
T_resolve(i) ==
    /\ tpc[i] = "wowait"
    /\ wo[i] = 0
    /\ IF mtrapped # Nil THEN callThen(i, NilVal, mtrapped)
       ELSE IF trapped[i] # Nil THEN callThen(i, NilVal, trapped[i])
       ELSE /\ tpc' = [tpc EXCEPT ![i] = "ctxerr"]
            /\ UNCHANGED <<thenCalls, thenVal, thenErr>>
    /\ UNCHANGED <<outq, outClosed, closes, wg, wo, trapped, t, clx, rpc, ra>>
    /\ UNCHANGED <<poolVars, callVars, ghostVars>>

\* faulty variant: the accumulator is handed over together with the context's error
T_ctx_value(i) ==
    /\ tpc[i] = "ctxerr"
    /\ IF ctx[i] = "cancelled" THEN callThen(i, Val(t[i]), Canceled)
       ELSE callThen(i, Val(t[i]), Nil)
    /\ UNCHANGED <<outq, outClosed, closes, wg, wo, trapped, t, clx, rpc, ra>>
    /\ UNCHANGED <<poolVars, callVars, ghostVars>>

\* o.ctx.Err(): the last two branches of the outcome (lines 253-257)
T_ctx(i) ==
    /\ tpc[i] = "ctxerr"
    /\ IF ctx[i] = "cancelled" THEN callThen(i, NilVal, Canceled)
       ELSE callThen(i, Val(t[i]), Nil)
    /\ UNCHANGED <<outq, outClosed, closes, wg, wo, trapped, t, clx, rpc, ra>>
    /\ UNCHANGED <<poolVars, callVars, ghostVars>>

\* faulty variant: the deferred function does not call o.cancel()
T_defer_nocancel(i) ==
    /\ tpc[i] = "defer"
    /\ tpc' = [tpc EXCEPT ![i] = "done"]
    /\ UNCHANGED <<mtrapped, parallelClosed>>
    /\ UNCHANGED <<pool, count, parallel, wpc, wop, wjob, inits, destroys, shutdowns,
                   shutdownPanics>>
    /\ UNCHANGED <<outq, outClosed, closes, wg, wo, trapped, t, clx, rpc, ra,
                   thenCalls, thenVal, thenErr>>
    /\ UNCHANGED <<callVars, ghostVars>>

\* the deferred function of call_then: o.cancel() if the pool is the
\* invocation's own
T_defer(i) ==
    /\ tpc[i] = "defer"
    /\ tpc' = [tpc EXCEPT ![i] = "done"]
    /\ IF pool = "owned" THEN CancelFunc
       ELSE UNCHANGED <<mtrapped, parallelClosed>>
    /\ UNCHANGED <<pool, count, parallel, wpc, wop, wjob, inits, destroys, shutdowns,
                   shutdownPanics>>
    /\ UNCHANGED <<outq, outClosed, closes, wg, wo, trapped, t, clx, rpc, ra,
                   thenCalls, thenVal, thenErr>>
    /\ UNCHANGED <<callVars, ghostVars>>

\* ----------------------------------------------------------- environment
\* jobs submitted so far by all callers
RECURSIVE SumTo(_, _)
SumTo(f, n) == IF n = 0 THEN 0 ELSE f[n] + SumTo(f, n - 1)
Submitted == SumTo(sent, MaxInv)

\* the steps of the pool's workers
Worker(w) ==
    \/ W_take(w)
    \/ W_exit(w)
    \/ W_clx(w)
    \/ W_cls(w)
    \/ W_drain(w)
    \/ W_recv(w)
    \/ W_eof(w)
    \/ W_map(w)
    \/ W_panic(w)
    \/ W_send(w)
    \/ W_pdrain(w)

\* the steps of the goroutines of invocation i: the caller inside Parallel,
\* call_reduce and call_then
Engine(i) ==
    \/ P_dispatch(i)
    \/ R_recv(i)
    \/ R_reduce(i)
    \/ R_panic(i)
    \/ R_end(i)
    \/ R_drain(i)
    \/ T_close(i)
    \/ T_resolve(i)
    \/ T_ctx(i)
    \/ T_defer(i)

\* the caller of invocation i submits a job or closes the queue
Producer(i) ==
    \/ (Submitted < NumJobs) /\ Send(i)
    \/ Close(i)

\* the user builds a pool, or shuts it down
User ==
    \/ \E sz \in 0..PoolSize : OptMappers(sz)
    \/ (shutdowns < MaxShutdown) /\ Shutdown

\* the first call of Parallel: any option list; without reducer or
\* without handler only the pool is chosen
FirstCall ==
    \E opts \in OptLists, red \in BOOLEAN, thn \in BOOLEAN :
        /\ (~(red /\ thn)) => (Kinds(opts) \subseteq {"mappers"})
        /\ P_call(1, opts, red, thn)

\* option lists of a later call with the same pool
RetryLists == {<<<<"mappers", "m">>>>,
               <<<<"mappers", "m">>, <<"queue", 0>>>>}

\* a later call of Parallel with a pool whose trap holds a fault
Retry ==
    \E opts \in RetryLists :
        /\ pst[1] # "new"
        /\ mtrapped # Nil
        /\ P_call(2, opts, TRUE, TRUE)

\* ------------------------------------------------------------------ spec
\* one accepted invocation on a default pool or on a pool of the user's,
\* and a later call once the pool is poisoned
Next ==
    \/ User
    \/ FirstCall
    \/ Retry
    \/ \E w \in Workers : Worker(w)
    \/ \E i \in Invs : Engine(i)
    \/ \E i \in Invs : Cancel(i)
    \/ \E i \in Invs : Producer(i)

Spec == Init /\ [][Next]_vars


\* ------------------------------------------------------------ pool reuse
\* the steps of a worker of a pool that is neither shut down nor cancelled
WorkerReuse(w) ==
    \/ W_take(w)
    \/ W_clx(w)
    \/ W_recv(w)
    \/ W_eof(w)
    \/ W_map(w)
    \/ W_panic(w)
    \/ W_send(w)
    \/ W_pdrain(w)

\* the next call of Parallel with the user's pool, reducer and handler
NextCall ==
    \E i \in Invs :
        /\ \A k \in 1..(i - 1) : pst[k] # "new"
        /\ P_call(i, <<<<"mappers", "m">>>>, TRUE, TRUE)

\* several invocations, one after the other or at once, on one pool of the
\* user's that is never shut down
NextReuse ==
    \/ \E sz \in 1..PoolSize : OptMappers(sz)
    \/ NextCall
    \/ \E w \in Workers : WorkerReuse(w)
    \/ \E i \in Invs : Engine(i)
    \/ \E i \in Invs : Producer(i)

SpecReuse == Init /\ [][NextReuse]_vars


\* ------------------------------------------------------- the tests' runs
\* the steps of a worker whose invocation is never cancelled
WorkerJobs(w) ==
    \/ W_take(w)
    \/ W_exit(w)
    \/ W_clx(w)
    \/ W_recv(w)
    \/ W_eof(w)
    \/ W_map(w)
    \/ W_panic(w)
    \/ W_send(w)
    \/ W_pdrain(w)

\* the caller of the tests: up to TestJobs jobs, then close(q)
ProducerJobs ==
    \/ (sent[1] < TestJobs) /\ Send(1)
    \/ Close(1)

\* one invocation as in TestExplicit, TestPanicMap and TestPanicReduce:
\* default options, a default pool or a pool of the user's, up to TestJobs
\* jobs; the mapper and the reducer may panic on any job
NextJobs ==
    \/ \E sz \in 1..PoolSize : OptMappers(sz)
    \/ \E opts \in {<<>>, <<<<"mappers", "m">>>>} : P_call(1, opts, TRUE, TRUE)
    \/ \E w \in Workers : WorkerJobs(w)
    \/ Engine(1)
    \/ ProducerJobs

SpecJobs == Init /\ [][NextJobs]_vars


\* ------------------------------------------- cancellation and pool reuse
\* the steps of a worker of a pool that is not shut down
WorkerCancel(w) ==
    \/ W_take(w)
    \/ W_clx(w)
    \/ W_cls(w)
    \/ W_drain(w)
    \/ W_recv(w)
    \/ W_eof(w)
    \/ W_map(w)
    \/ W_panic(w)
    \/ W_send(w)
    \/ W_pdrain(w)

\* a call with the user's pool and a context that is cancelled before the
\* call or may be cancelled during the run
CancelCall ==
    \E c \in {"live", "cancelled"} :
        P_call(1, <<<<"ctx", c>>, <<"mappers", "m">>>>, TRUE, TRUE)

\* a later call with the same pool and the default context, made after the
\* handler of the first invocation has been called
LaterCall ==
    /\ thenCalls[1] = 1
    /\ P_call(2, <<<<"mappers", "m">>>>, TRUE, TRUE)

\* the caller of invocation i submits up to NumJobs jobs, then closes
ProducerCancel(i) ==
    \/ (sent[i] < NumJobs) /\ Send(i)
    \/ Close(i)

\* an invocation with a context that gets cancelled, then a second one on
\* the same pool, as in TestCancel followed by another call
NextCancel ==
    \/ \E sz \in 1..PoolSize : OptMappers(sz)
    \/ CancelCall
    \/ LaterCall
    \/ Cancel(1)
    \/ \E w \in Workers : WorkerCancel(w)
    \/ \E i \in Invs : Engine(i)
    \/ \E i \in Invs : ProducerCancel(i)

SpecCancel == Init /\ [][NextCancel]_vars


\* ----------------------------------------------------- repeated shutdown
\* calls of the shutdown function in one run, a repeated call included
PoolShutdowns == MaxShutdown + 1

\* one invocation on a pool of the user's whose shutdown function is called
\* at any time, and called again
NextShutdown ==
    \/ \E sz \in 1..PoolSize : OptMappers(sz)
    \/ (shutdowns < PoolShutdowns) /\ Shutdown
    \/ P_call(1, <<<<"mappers", "m">>>>, TRUE, TRUE)
    \/ \E w \in Workers : WorkerJobs(w)
    \/ Engine(1)
    \/ Producer(1)

SpecShutdown == Init /\ [][NextShutdown]_vars


\* ------------------------------------------ cancellation with many jobs
\* one invocation as in TestCancel: a context that is cancelled before the
\* call or at any time during the run, and more jobs than the queue holds
NextCancelJobs ==
    \/ \E sz \in 1..PoolSize : OptMappers(sz)
    \/ CancelCall
    \/ Cancel(1)
    \/ \E w \in Workers : WorkerCancel(w)
    \/ Engine(1)
    \/ ProducerJobs

SpecCancelJobs == Init /\ [][NextCancelJobs]_vars


\* ================================================================ claims
\* every goroutine of the engine and of the pool is blocked or has ended
Threads == (\E w \in Workers : Worker(w)) \/ (\E i \in Invs : Engine(i))
Quiet == ~ENABLED Threads

\* every caller that holds a queue has closed it
AllClosed == \A k \in Invs : pst[k] # "returned"

\* no panic of user code in invocation i and no shutdown of the pool
NoFault(i) ==
    /\ \A k \in Invs : mapFaults[k] = {}
    /\ redFaults[i] = {}
    /\ shutdowns = 0

\* the fold of the reducer over the seed and the first n jobs
RECURSIVE FoldJobs(_)
FoldJobs(n) == IF n = 0 THEN Seed ELSE Reducer(FoldJobs(n - 1), JobAt(n))

\* the error is a trapped panic raised by a mapper on the pool
IsMapperFault(e) ==
    \E k \in Invs : \E j \in mapFaults[k] : e = ErrTrappedPanic("mapper", k, j)

\* the config error of the first invalid option of a list, Nil if none
RECURSIVE FirstInvalid(_)
FirstInvalid(opts) ==
    IF opts = <<>> THEN Nil
    ELSE IF Head(opts)[1] = "queue" /\ Head(opts)[2] < 1
         THEN ErrOptInvalidValueQueue
    ELSE IF Head(opts) = <<"ctx", "nil">> THEN ErrOptInvalidValueContext
    ELSE FirstInvalid(Tail(opts))

\* ---------------------------------------------------------------- C1
\* C1 (as claimed): for every invocation that returned a queue, has a
\* reducer and a handler and whose caller closed the queue, the handler is
\* never called twice, and once all goroutines have come to rest (every
\* caller having closed its queue) it has been called exactly once.
C1_HandlerExactlyOnce ==
    \A i \in Invs :
        (pst[i] = "closed" /\ hasReducer[i] /\ hasThen[i]) =>
            /\ thenCalls[i] <= 1
            /\ (Quiet /\ AllClosed) => (thenCalls[i] = 1)

\* ---------------------------------------------------------------- C2
\* C2: without fault, shutdown and cancellation, the handler receives the
\* fold of the reducer over the seed and all submitted jobs and a nil
\* error, in every interleaving of the workers.
C2_FoldOfAllJobs ==
    \A i \in Invs :
        (thenCalls[i] > 0 /\ NoFault(i) /\ ctx[i] # "cancelled") =>
            /\ thenErr[i] = Nil
            /\ thenVal[i] = Val(FoldJobs(sent[i]))

\* the jobs {0, 1, 2, -1} of TestExplicit have been reduced to 2
C2_Witness ==
    /\ thenCalls[1] = 1
    /\ sent[1] = TestJobs
    /\ NoFault(1)
    /\ thenVal[1] = Val(2)

\* ---------------------------------------------------------------- C3
\* C3: without fault, shutdown and cancellation, when the handler is called
\* every submitted job has been mapped exactly once, no mapper call is in
\* progress and the reducer has been called exactly once per mapped result.
C3_EachJobOnce ==
    \A i \in Invs :
        (thenCalls[i] > 0 /\ NoFault(i) /\ ctx[i] # "cancelled") =>
            /\ \A k \in 1..MaxJobs :
                  /\ mapCalls[i][JobAt(k)] = (IF k <= sent[i] THEN 1 ELSE 0)
                  /\ redCalls[i][JobAt(k)] = mapCalls[i][JobAt(k)]
            /\ \A w \in Workers : wop[w] # i

\* both workers have mapped a job of the same invocation
C3_Witness ==
    /\ thenCalls[1] = 1
    /\ NoFault(1)
    /\ sent[1] = TestJobs
    /\ count = 2
    /\ \A k \in 1..TestJobs : mapCalls[1][JobAt(k)] = 1

\* ---------------------------------------------------------------- C4
\* C4: a reducer call starts only in the reduction loop and only when no
\* other reducer call is in progress, and the accumulator is written only
\* by the reduction loop at the end of such a call; no worker and no
\* completion step takes part.
C4_SerialReducer ==
    [][\A i \in Invs :
          /\ (redCalls'[i] # redCalls[i]) =>
                (rpc[i] = "recv" /\ rpc'[i] = "reducing" /\ wpc' = wpc /\ tpc' = tpc)
          /\ (t'[i] # t[i]) =>
                (rpc[i] = "reducing" /\ rpc'[i] = "recv" /\ wpc' = wpc /\ tpc' = tpc)
      ]_vars

\* a second reducer call is in progress after the first one wrote the
\* accumulator, while a worker is still mapping
C4_Witness ==
    /\ rpc[1] = "reducing"
    /\ t[1] # Seed
    /\ \E w \in Workers : wpc[w] \in {"mapping", "send"}

\* ---------------------------------------------------------------- C5
\* C5: when the handler is called, the outcome follows the precedence of
\* the values loaded: a fault in the pool's trap, else a fault in the
\* invocation's trap, else (both loads having returned nil) the context's
\* error, else the accumulator with a nil error; the value is nil with
\* every error.
C5_Precedence ==
    [][\A i \in Invs :
          (thenCalls'[i] # thenCalls[i]) =>
             /\ thenCalls'[i] = thenCalls[i] + 1
             /\ (thenErr'[i] # Nil) <=> (thenVal'[i] = NilVal)
             /\ IF tpc[i] = "wowait"
                THEN /\ (mtrapped # Nil) =>
                           (thenErr'[i] = mtrapped /\ thenVal'[i] = NilVal)
                     /\ (mtrapped = Nil) =>
                           (trapped[i] # Nil /\ thenErr'[i] = trapped[i]
                              /\ thenVal'[i] = NilVal)
                ELSE /\ trapped[i] = Nil
                     /\ (ctx[i] = "cancelled") =>
                           (thenErr'[i] = Canceled /\ thenVal'[i] = NilVal)
                     /\ (ctx[i] # "cancelled") =>
                           (thenErr'[i] = Nil /\ thenVal'[i] = Val(t[i]))
      ]_vars

\* the handler received the pool's fault although the invocation's own
\* trap holds a reducer fault and the context is cancelled
C5_Witness ==
    /\ thenCalls[1] = 1
    /\ thenErr[1] = mtrapped
    /\ trapped[1] # Nil
    /\ ctx[1] = "cancelled"

C7_Trapped(i) ==
    /\ trapped[i] \in {ErrTrappedPanic("reducer", i, a) : a \in redFaults[i]}
    /\ Cardinality(redFaults[i]) = 1
    /\ rpc[i] \in {"drain", "done"}
    /\ Quiet => (\A w \in Workers : ~(wop[w] = i /\ wpc[w] = "send"))

\* C7 (as claimed): after a reducer fault the fault is in the invocation's
\* trap, the reducer is not called again, no worker stays blocked on the
\* result queue, and the handler receives the reducer's payload.
C7_ReducerPayload ==
    \A i \in Invs :
        (redFaults[i] # {}) =>
            /\ C7_Trapped(i)
            /\ (thenCalls[i] > 0) => (thenVal[i] = NilVal /\ thenErr[i] = trapped[i])

\* C7 (amended): as claimed, but the handler receives the reducer's payload
\* only if the pool's trap holds no fault when the outcome is resolved;
\* otherwise it receives the fault of the pool's trap.
C7_ReducerFaultReported ==
    \A i \in Invs :
        (redFaults[i] # {}) =>
            /\ C7_Trapped(i)
            /\ (thenCalls[i] > 0) =>
                  /\ thenVal[i] = NilVal
                  /\ thenErr[i][1] = "ErrTrappedPanic"
                  /\ (thenErr[i] # trapped[i]) =>
                        (IsMapperFault(thenErr[i]) \/ thenErr[i] = ErrCancelledMapper)

\* the handler received the reducer's payload after the reduction thread
\* discarded a result that was mapped and never reduced
C7_Witness ==
    /\ thenCalls[1] = 1
    /\ thenErr[1] = trapped[1]
    /\ redFaults[1] # {}
    /\ \E j \in JobVals : mapCalls[1][j] = 1 /\ redCalls[1][j] = 0

\* ---------------------------------------------------------------- C8
\* C8: with a context cancelled before the call and without fault or
\* shutdown, the handler receives the context's error and a nil value,
\* whatever was mapped and reduced before.
C8_PreCancelled ==
    \A i \in Invs :
        (thenCalls[i] > 0 /\ preCancelled[i] /\ NoFault(i)) =>
            (thenErr[i] = Canceled /\ thenVal[i] = NilVal)

\* the handler received the context's error although a job was reduced
C8_Witness ==
    /\ thenCalls[1] = 1
    /\ preCancelled[1]
    /\ thenErr[1] = Canceled
    /\ \E j \in JobVals : redCalls[1][j] > 0

\* ---------------------------------------------------------------- C9
\* what a rejected call leaves: the error of the first invalid option as
\* return value, no queue and no goroutine
C9_Rejected(i) ==
    /\ retErr[i] = FirstInvalid(rejected[i])
    /\ retErr[i] \in {ErrOptInvalidValueQueue, ErrOptInvalidValueContext}
    /\ oqueue[i] = 0
    /\ tpc[i] = "none"

\* C9 (as claimed): a call with an invalid option returns no queue and the
\* configuration error is delivered to the completion handler.
C9_ErrorToHandler ==
    \A i \in Invs :
        (pst[i] = "cfgerr") =>
            (C9_Rejected(i) /\ thenCalls[i] = 1 /\ thenErr[i] = retErr[i])

\* C9 (amended): a call with an invalid option returns no queue and returns
\* the configuration error (invalid queue size or invalid context) to its
\* caller; the completion handler is not called; a call that is accepted
\* has a queue size of at least 1 and a context.
C9_ErrorReturned ==
    \A i \in Invs :
        /\ (pst[i] = "cfgerr") =>
              (C9_Rejected(i) /\ thenCalls[i] = 0 /\ thenErr[i] = Nil)
        /\ (pst[i] \notin {"new", "cfgerr"}) =>
              (retErr[i] = Nil /\ oqueue[i] >= 1
                 /\ ctx[i] \in {"background", "live", "cancelled"})

\* a call was rejected for its queue size although a later option of the
\* list is invalid too
C9_Witness ==
    /\ pst[1] = "cfgerr"
    /\ retErr[1] = ErrOptInvalidValueQueue
    /\ <<"ctx", "nil">> \in {rejected[1][k] : k \in 1..Len(rejected[1])}

\* --------------------------------------------------------------- C10
\* a call of Parallel that names the pool while the pool's trap holds a fault
C10_PoisonedCall(i) ==
    /\ pst[i] = "new"
    /\ pst'[i] # "new"
    /\ mtrapped # Nil
    /\ pool = "external"
    /\ (pst'[i] = "cfgerr") => ("mappers" \in Kinds(rejected'[i]))

\* C10 (as claimed): every call of Parallel with a pool whose trap holds a
\* fault panics before any assignment is dispatched.
C10_PoisonedPanics ==
    [][\A i \in Invs :
          C10_PoisonedCall(i) =>
             (pst'[i] = "panicked" /\ disp'[i] = 0 /\ parallel' = parallel)
      ]_vars

\* C10 (amended): every call of Parallel with a pool whose trap holds a
\* fault is rejected before any assignment is dispatched and returns no
\* queue: it panics if all its options are valid, and returns the
\* configuration error if one of them is invalid.
C10_PoisonedRejected ==
    [][\A i \in Invs :
          C10_PoisonedCall(i) =>
             /\ disp'[i] = 0
             /\ parallel' = parallel
             /\ pst'[i] \in {"panicked", "cfgerr"}
             /\ (pst'[i] = "cfgerr") <=> (FirstInvalid(rejected'[i]) # Nil)
      ]_vars

\* a call panicked on a pool poisoned by a mapper fault of the invocation
\* before, whose handler has been called
C10_Witness ==
    /\ pst[2] = "panicked"
    /\ disp[2] = 0
    /\ mtrapped[2] = "mapper"
    /\ thenCalls[1] = 1

\* --------------------------------------------------------------- C11
\* C11: for a pool built with OptMappers, of N workers, the init hook has
\* run exactly once for each of the N worker indices and for no other, in
\* every state, whatever number of invocations has run on the pool; no
\* worker exists, and so no assignment is processed, before its init ran.
C11_InitOncePerWorker ==
    (pool = "external") =>
        /\ count \in 1..PoolSize
        /\ \A w \in Workers : inits[w] = (IF w <= count THEN 1 ELSE 0)
        /\ \A w \in Workers : (wpc[w] # "unborn") => (inits[w] = 1)

\* two invocations have completed on a pool of two workers
C11_Witness ==
    /\ pool = "external"
    /\ count = 2
    /\ thenCalls[1] = 1
    /\ thenCalls[2] = 1
    /\ inits[1] = 1
    /\ inits[2] = 1

\* --------------------------------------------------------------- C12
\* C12 (as claimed): for a pool built with OptMappers the destroy hook runs
\* at most once per worker, never before the shutdown function has been
\* called, and once all goroutines have come to rest after a shutdown it
\* has run for every worker that is not serving an assignment.
C12_DestroyAtShutdown ==
    (pool = "external") =>
        \A w \in Workers :
            /\ destroys[w] <= 1
            /\ (destroys[w] = 1) => (shutdowns > 0)
            /\ (Quiet /\ shutdowns > 0 /\ w <= count /\ wop[w] = 0) =>
                  (destroys[w] = 1)

\* C12 (amended): for a pool built with OptMappers the destroy hook runs at
\* most once per worker, exactly when the worker goroutine ends: after the
\* shutdown function has been called, or before it for a worker whose
\* mapper raised a fault (that worker ends once the queue of its invocation
\* is closed); once all goroutines have come to rest after a shutdown it
\* has run for every worker that is not serving an assignment.
C12_DestroyAtExit ==
    (pool = "external") =>
        \A w \in Workers :
            /\ destroys[w] <= 1
            /\ (destroys[w] = 1) <=> (wpc[w] = "dead")
            /\ (destroys[w] = 1 /\ wop[w] = 0) => (shutdowns > 0)
            /\ (destroys[w] = 1 /\ wop[w] # 0) =>
                  (mapFaults[wop[w]] # {} /\ inClosed(wop[w]))
            /\ (Quiet /\ shutdowns > 0 /\ w <= count /\ wop[w] = 0) =>
                  (destroys[w] = 1)

\* after a shutdown both workers have ended, one of them after a mapper
\* fault, and destroy has run for each
C12_Witness ==
    /\ pool = "external"
    /\ count = 2
    /\ shutdowns = 1
    /\ \A w \in Workers : destroys[w] = 1
    /\ \E w \in Workers : wop[w] # 0
    /\ \E w \in Workers : wop[w] = 0

\* --------------------------------------------------------------- C13
\* the worker goroutines of the pool that have not ended
LiveWorkers == {w \in Workers : wpc[w] \notin {"unborn", "dead"}}

\* C13 (as claimed): a pool of size N has exactly N live worker goroutines
\* in every state in which its shutdown function has not been called.
C13_AlwaysNLive ==
    (pool # "none" /\ ~parallelClosed) => (Cardinality(LiveWorkers) = count)

\* C13 (amended): until its shutdown function is called, a pool of size N
\* has exactly N worker goroutines of which each is live and serving, except
\* the workers whose mapper raised a fault: such a worker serves no further
\* assignment and ends once the queue of its invocation is closed; without
\* a mapper fault exactly N workers are live.
C13_NLiveUnlessFault ==
    (pool # "none" /\ ~parallelClosed) =>
        /\ \A w \in Workers :
              /\ (w > count) <=> (wpc[w] = "unborn")
              /\ (wpc[w] \in {"pdrain", "dead"}) =>
                    (wop[w] # 0 /\ mapFaults[wop[w]] # {})
              /\ (wpc[w] = "dead") => inClosed(wop[w])
        /\ (\A i \in Invs : mapFaults[i] = {}) =>
              (Cardinality(LiveWorkers) = count)

\* of a pool of two that was not shut down, one worker has ended after a
\* mapper fault and the other is waiting for an assignment
C13_Witness ==
    /\ pool = "external"
    /\ ~parallelClosed
    /\ count = 2
    /\ \E w \in Workers : wpc[w] = "dead"
    /\ \E w \in Workers : wpc[w] = "idle"
    /\ thenCalls[1] = 1

C15_NoReducerCompletes ==
    \A i \in Invs :
        (pst[i] = "closed" /\ ~hasReducer[i] /\ hasThen[i] /\ Quiet) =>
            /\ thenCalls[i] = 1
            /\ inq[i] = <<>>
            /\ \A w \in Workers : ~(wop[w] = i /\ wpc[w] = "send")

\* --------------------------------------------------------------- C16
\* C16: after an invocation whose context was cancelled has reported to
\* its handler, a later invocation on the same pool with a
\* context that is not cancelled is accepted (the call does not panic) and,
\* when no mapper or reducer faults, its handler is called exactly once
\* after the queue is closed, with a nil error and the fold of its jobs.
C16_CancelDoesNotPoison ==
    \A i \in Invs : \A k \in Invs \ {i} :
        (/\ thenCalls[i] = 1
         /\ ctx[i] = "cancelled"
         /\ pst[k] # "new"
         /\ ctx[k] = "background"
         /\ redFaults[k] = {}
         /\ \A n \in Invs : mapFaults[n] = {}) =>
            /\ mtrapped = Nil
            /\ pst[k] \in {"dispatch", "returned", "closed"}
            /\ thenCalls[k] <= 1
            /\ (thenCalls[k] = 1) =>
                  (thenErr[k] = Nil /\ thenVal[k] = Val(FoldJobs(sent[k])))
            /\ (Quiet /\ pst[k] = "closed") => (thenCalls[k] = 1)

\* the first invocation mapped a job before its workers saw the
\* cancellation, and the later invocation reduced its two jobs
C16_Witness ==
    /\ thenErr[1] = Canceled
    /\ \E j \in JobVals : mapCalls[1][j] > 0
    /\ thenCalls[2] = 1
    /\ sent[2] = NumJobs
    /\ thenVal[2] = Val(FoldJobs(NumJobs))

\* --------------------------------------------------------------- C17
\* C17 (as claimed): when two invocations have been dispatched to one pool
\* and a mapper faults in one of them, then for the other, whose mapper and
\* reducer do not fault, once the faulting invocation's queue is closed and
\* all goroutines have come to rest, its producer is not blocked on a full
\* queue and, if its queue is closed, its handler has been called.
C17_OtherInvocationCompletes ==
    \A i \in Invs : \A k \in Invs \ {i} :
        (/\ disp[i] = count
         /\ disp[k] = count
         /\ mapFaults[k] # {}
         /\ mapFaults[i] = {}
         /\ redFaults[i] = {}
         /\ pst[k] = "closed"
         /\ Quiet) =>
            /\ (pst[i] = "returned") => (Len(inq[i]) < oqueue[i])
            /\ (pst[i] = "closed") => (thenCalls[i] = 1)

\* --------------------------------------------------------------- C18
\* C18: when the pool is the invocation's own, the completion step closes
\* the pool's channel whatever the outcome; from then on no worker stays
\* waiting for an assignment, and once the caller has closed the queue and
\* all goroutines have come to rest every worker of the pool has ended.
C18_OwnedPoolShutDown ==
    \A i \in Invs :
        (pool = "owned" /\ tpc[i] = "done") =>
            /\ parallelClosed
            /\ parallel = <<>>
            /\ Quiet => (\A w \in Workers : wpc[w] # "idle")
            /\ (Quiet /\ pst[i] = "closed") =>
                  (\A w \in Workers : (w <= count) <=> (wpc[w] = "dead"))

\* all workers of the default pool have ended after a reducer fault was
\* reported, one of them after a mapper fault
C18_Witness ==
    /\ pool = "owned"
    /\ tpc[1] = "done"
    /\ redFaults[1] # {}
    /\ mapFaults[1] # {}
    /\ \A w \in Workers : wpc[w] = "dead"
    /\ \E w \in Workers : wop[w] = 0

\* --------------------------------------------------------------- C19
\* C19 (as claimed): every call of the pool's shutdown function made while
\* the pool's trap holds a fault panics.
C19_ShutdownAfterFaultPanics ==
    [][(shutdowns' # shutdowns /\ mtrapped # Nil) =>
           (shutdownPanics' = shutdownPanics + 1)
      ]_vars

\* C19 (amended): a call of the pool's shutdown function panics exactly
\* when the shutdown function has been called before (the close of a closed
\* channel); a call made after a mapper fault only returns normally, and
\* every call leaves the pool-cancelled error in the pool's trap.
C19_SecondShutdownPanics ==
    [][(shutdowns' # shutdowns) =>
           /\ shutdowns' = shutdowns + 1
           /\ mtrapped' = ErrCancelledMapper
           /\ parallelClosed'
           /\ shutdownPanics' = (IF shutdowns > 0 THEN shutdownPanics + 1
                                 ELSE shutdownPanics)
      ]_vars

\* after a mapper fault the first call of the shutdown function returned
\* and the second one panicked
C19_Witness ==
    /\ shutdowns = 2
    /\ shutdownPanics = 1
    /\ mapFaults[1] # {}
    /\ thenCalls[1] = 1
    /\ IsMapperFault(thenErr[1])

\* --------------------------------------------------------------- C20
\* C20 (as claimed): after a reducer fault has closed the forced-stop
\* channel, a caller that still has jobs to submit is not left blocked on a
\* full submission queue: when all goroutines have come to rest the queue
\* has room for the next job.
C20_ProducerNotBlocked ==
    \A i \in Invs :
        (/\ redFaults[i] # {}
         /\ clx[i]
         /\ pst[i] = "returned"
         /\ sent[i] < TestJobs
         /\ Quiet) =>
            (Len(inq[i]) < oqueue[i])

\* --------------------------------------------------------------- C21
\* C21 (as claimed): once the context of an invocation is cancelled, a
\* caller that still has jobs to submit is not left blocked on a full
\* submission queue: when all goroutines have come to rest the queue has
\* room for the next job.
C21_CancelledProducerNotBlocked ==
    \A i \in Invs :
        (/\ ctx[i] = "cancelled"
         /\ pst[i] = "returned"
         /\ sent[i] < TestJobs
         /\ Quiet) =>
            (Len(inq[i]) < oqueue[i])

\* the same without a reducer fault in the invocation
C21_NoReducerFault ==
    \A i \in Invs :
        (/\ ctx[i] = "cancelled"
         /\ redFaults[i] = {}
         /\ pst[i] = "returned"
         /\ sent[i] < TestJobs
         /\ Quiet) =>
            (Len(inq[i]) < oqueue[i])

\* --------------------------------------------------------------- C22
\* the worker has recovered from a panic of the mapper
C22_Faulted(w) == wpc[w] \in {"pdrain", "dead"} /\ wop[w] # 0

\* what the faulted workers do: the pool's trap holds a fault, the worker
\* keeps the assignment it was serving and holds no job, and once the
\* queue is closed and all goroutines have come to rest it has ended
C22_Worker ==
    \A w \in Workers :
        C22_Faulted(w) =>
            /\ mtrapped # Nil
            /\ mapFaults[wop[w]] # {}
            /\ wg[wop[w]] < count
            /\ (wpc[w] = "dead") => (inClosed(wop[w]) /\ inq[wop[w]] = <<>>)
            /\ (Quiet /\ inClosed(wop[w])) => (wpc[w] = "dead")

\* C22 (as claimed): after a mapper fault the worker records the fault,
\* drains the queue and ends; once all goroutines have come to rest the
\* producer of the invocation is not blocked on a full queue and, if every
\* queue is closed, the completion counter of the invocation is zero.
C22_FaultedWorkerDrains ==
    /\ C22_Worker
    /\ \A i \in Invs :
          (mapFaults[i] # {} /\ Quiet) =>
              /\ (pst[i] = "returned" /\ sent[i] < TestJobs) =>
                    (Len(inq[i]) < oqueue[i])
              /\ (pst[i] = "closed" /\ AllClosed) => (wg[i] = 0)

\* --------------------------------------------------------------- C23
\* C23 (as claimed): once the context of an invocation is cancelled no
\* worker starts a mapper call for that invocation.
C23_NoNewMapperCall ==
    [][\A w \in Workers :
          (wpc[w] = "select" /\ wpc'[w] = "mapping") =>
              (ctx[wop[w]] # "cancelled")]_vars

\* what the code does keep: a worker that has taken the cancellation case
\* only discards jobs until it leaves the assignment
C23_AfterCancellationCase ==
    [][\A w \in Workers :
          (wpc[w] = "drain") =>
              (wpc'[w] \in {"drain", "idle"})]_vars

C25_ReducerFaultDoesNotPoison ==
    (/\ thenCalls[1] = 1
     /\ redFaults[1] # {}
     /\ pst[2] # "new"
     /\ redFaults[2] = {}
     /\ \A n \in Invs : mapFaults[n] = {}) =>
        /\ mtrapped = Nil
        /\ pst[2] \in {"dispatch", "returned", "closed"}
        /\ thenCalls[2] <= 1
        /\ (thenCalls[2] = 1) =>
              (thenErr[2] = Nil /\ thenVal[2] = Val(FoldJobs(sent[2])))
        /\ (Quiet /\ pst[2] = "closed") => (thenCalls[2] = 1)

\* the first handler got the reducer's fault, and the later invocation
\* reduced its two jobs
C25_Witness ==
    /\ \E j \in redFaults[1] : thenErr[1] = ErrTrappedPanic("reducer", 1, j)
    /\ thenCalls[2] = 1
    /\ sent[2] = NumJobs
    /\ thenErr[2] = Nil
    /\ thenVal[2] = Val(FoldJobs(NumJobs))

\* --------------------------------------------------------------- C26
\* C26: the step of Parallel that returns a configuration error creates no
\* pool and no worker, starts neither call_then nor call_reduce, sets no
\* counter, allocates no queue and dispatches nothing.
C26_ConfigErrorShortCircuits ==
    [][\A i \in Invs :
          (pst[i] = "new" /\ pst'[i] = "cfgerr") =>
              /\ UNCHANGED <<pool, count, wpc, parallel, inits>>
              /\ UNCHANGED <<tpc, rpc, wg, wo>>
              /\ UNCHANGED <<oqueue, inq, outq, disp>>
              /\ tpc[i] = "none" /\ rpc[i] = "none"]_vars

\* a call without a pool of the user's has returned a configuration error
\* and no pool exists
C26_Witness ==
    \E i \in Invs :
        /\ pst[i] = "cfgerr"
        /\ retErr[i] # Nil
        /\ "mappers" \notin Kinds(rejected[i])
        /\ pool = "none"
        /\ \A w \in Workers : wpc[w] = "unborn"

\* --------------------------------------------------------------- C27
\* C27 (as claimed): when a call of Parallel has been rejected by the check
\* of the pool's trap and all goroutines have come to rest, neither the
\* call_then nor the call_reduce goroutine of that call is left waiting.
C27_RejectedCallLeavesNothing ==
    \A i \in Invs :
        (pst[i] = "panicked" /\ disp[i] = 0 /\ Quiet) =>
            /\ tpc[i] \in {"none", "done"}
            /\ rpc[i] \in {"none", "done"}

\* --------------------------------------------------------------- C28
\* C28: on a pool built with hooks, a mapper call in progress in worker w
\* uses the state made by init(w - 1), which was made by one call of init;
\* no two calls in progress use the same state; and no call is in progress
\* with a state that destroy has been called on.
C28_StateNeverShared ==
    (pool = "external") =>
        \A w \in Workers :
            /\ (wpc[w] = "mapping") <=> (fnState[w] # NoCall)
            /\ (wpc[w] = "mapping") =>
                  /\ fnState[w] = <<"init", w - 1>>
                  /\ inits[w] = 1
                  /\ \A v \in Workers \ {w} : fnState[v] # fnState[w]
                  /\ \A v \in Workers :
                        (destroys[v] > 0) => (fnState[w] # <<"init", v - 1>>)

\* a mapper call is in progress in one worker after the other worker has
\* called destroy on its state
C28_Witness ==
    /\ pool = "external"
    /\ \E w \in Workers : \E v \in Workers \ {w} :
          wpc[w] = "mapping" /\ destroys[v] = 1

\* --------------------------------------------------------------- C29
\* copies of the assignment of invocation i waiting in m.parallel
C29_InChannel(i) == Cardinality({k \in 1..Len(parallel) : parallel[k] = i})

\* copies of the assignment of invocation i received by the workers
C29_Received(i) == SumTo([w \in Workers |-> copies[w][i]], PoolSize)

\* workers that hold a copy of the assignment of i and have not left it
C29_InProgress(i) ==
    Cardinality({w \in Workers :
                    wop[w] = i /\ wpc[w] \in {"select", "mapping", "send", "drain"}})

RECURSIVE C30_QueueOption(_)
C30_QueueOption(opts) ==
    IF opts = <<>> THEN 0
    ELSE IF Head(opts)[1] = "queue" THEN Head(opts)[2]
    ELSE C30_QueueOption(Tail(opts))

\* makeOptions resolves the capacity of `in` to the queue option, or to the
\* pool size when the option is not given
C30_Resolved ==
    \A opts \in OptLists : \A n \in 1..PoolSize :
        (makeOptions(opts, n).err = Nil) =>
            (makeOptions(opts, n).queue =
                IF "queue" \in Kinds(opts) THEN C30_QueueOption(opts) ELSE n)

\* C30: makeOptions resolves the capacity of `in` to the queue option, or
\* to the pool size when the option is not given; `in` never holds more
\* jobs than that capacity and `out` never holds more results than the pool
\* size; a caller facing a full `in` cannot send, and a worker facing a full
\* `out` cannot send.
C30_QueuesBounded ==
    /\ C30_Resolved
    /\ \A i \in Invs :
          (tpc[i] # "none") =>
              /\ oqueue[i] \in (1..MaxQueue) \cup {count}
              /\ Len(inq[i]) <= oqueue[i]
              /\ Len(outq[i]) <= count
              /\ (Len(inq[i]) = oqueue[i]) => ~ENABLED Send(i)
              /\ \A w \in Workers :
                    (/\ wop[w] = i
                     /\ wpc[w] = "send"
                     /\ ~outClosed[i]
                     /\ Len(outq[i]) = count) => ~ENABLED W_send(w)

\* both queues of an invocation are full, the caller has jobs left and a
\* worker holds a result to send
C30_Witness ==
    \E i \in Invs :
        /\ pst[i] = "returned"
        /\ sent[i] < TestJobs
        /\ Len(inq[i]) = oqueue[i]
        /\ Len(outq[i]) = count
        /\ \E w \in Workers : wop[w] = i /\ wpc[w] = "send"

\* --------------------------------------------------------------- C31
\* C31: in every reachable state, whatever faults, cancellation and drains
\* have happened, each job has been passed to the mapper at most once and
\* each result has been passed to the reducer at most once, and only after
\* its job was mapped.
C31_AtMostOnce ==
    \A i \in Invs : \A j \in JobVals :
        /\ mapCalls[i][j] <= 1
        /\ redCalls[i][j] <= 1
        /\ redCalls[i][j] <= mapCalls[i][j]

\* a cancelled invocation in which the mapper panicked on one job and the
\* reducer on the result of another, while a third job was discarded
C31_Witness ==
    /\ ctx[1] = "cancelled"
    /\ mapFaults[1] # {}
    /\ redFaults[1] # {}
    /\ thenCalls[1] = 1
    /\ \E k \in 1..TestJobs : k <= sent[1] /\ mapCalls[1][JobAt(k)] = 0

\* --------------------------------------------------------------- C32
\* C32: `out` is closed at most once, it is closed exactly once when
\* call_then has passed wg.Wait(), and only with the completion counter at
\* zero; once it is closed no worker of the invocation holds a result to
\* send or is still able to produce one, and the pool's trap never holds the
\* panic of a send on a closed channel.
C32_ClosedOnceAfterWorkers ==
    \A i \in Invs :
        /\ closes[i] <= 1
        /\ outClosed[i] <=> (closes[i] = 1)
        /\ (tpc[i] \in {"wowait", "ctxerr", "defer", "done"}) => (closes[i] = 1)
        /\ outClosed[i] =>
              /\ wg[i] = 0
              /\ \A w \in Workers :
                    (wop[w] = i) => (wpc[w] \notin {"select", "mapping", "send", "drain"})
        /\ mtrapped # SendOnClosed(i)

\* `out` was closed after one worker panicked in the mapper and the results
\* of the other jobs had filled `out` and been reduced
C32_Witness ==
    /\ outClosed[1]
    /\ closes[1] = 1
    /\ mapFaults[1] # {}
    /\ \E j \in JobVals : \E k \in JobVals \ {j} :
          redCalls[1][j] = 1 /\ redCalls[1][k] = 1

\* --------------------------------------------------------------- C33
\* the step is the call of the handler of invocation i, the pool's shutdown
\* function was called before it and no mapper has panicked
C33_HandlerAfterShutdown(i) ==
    /\ thenCalls'[i] = thenCalls[i] + 1
    /\ shutdowns >= 1
    /\ \A k \in Invs : mapFaults[k] = {}

\* every job submitted to invocation i was mapped and reduced once
C33_AllJobsDone(i) ==
    \A k \in 1..MaxJobs :
        /\ mapCalls[i][JobAt(k)] = (IF k <= sent[i] THEN 1 ELSE 0)
        /\ redCalls[i][JobAt(k)] = mapCalls[i][JobAt(k)]

====
